---- MODULE Spec2Model ----
(***************************************************************************)
(* BLEManager (src/data_transmission/__main__.py and                       *)
(* src/ble_speed_test/__main__.py): scan, connect, validate, subscribe,    *)
(* block until cancelled, then stop_notifications and disconnect.          *)
(*                                                                         *)
(* The BLE transport (bleak) and the asyncio scheduler are the             *)
(* environment: every awaited transport call is one step whose outcome     *)
(* (it returns, or it raises) is chosen nondeterministically; a link loss  *)
(* and a cancellation signal may arrive between two steps.                 *)
(***************************************************************************)
EXTENDS Integers, Sequences, FiniteSets

\* ----------------------------------------------------------------- bounds
\* Advertisements the scanner may deliver during one scan.
MaxAdverts == 2
\* Cancellation signals (Ctrl+C / task cancellation) during one run.
MaxSignals == 2
\* Calls of run on one BLEManager.
MaxRuns == 2

\* ------------------------------------------------------- program constants
TARGET_NAME == "MonArduinoBLE"

\* CHARACTERISTIC_UUIDS of the full-telemetry program, in dict order.
FullRegistry ==
    << [label |-> "acceleration", uuid |-> "19B10001-E8F2-537E-4F6C-D104768A1214"],
       [label |-> "rotation",     uuid |-> "19B10002-E8F2-537E-4F6C-D104768A1215"],
       [label |-> "magnetometer", uuid |-> "19B10002-E8F2-537E-4F6C-D104768A1216"],
       [label |-> "temperature",  uuid |-> "19B10003-E8F2-537E-4F6C-D104768A1217"] >>

\* CHARACTERISTIC_UUIDS of the timing-only program.
TimingRegistry ==
    << [label |-> "time", uuid |-> "19B10001-E8F2-537E-4F6C-D104768A1214"] >>

Profiles == {"full", "timing"}

\* ------------------------------------------------------------ environment
\* Device names on the air: the target, and another name that differs from
\* it only by case.
AdvertNames == {"MonArduinoBLE", "monarduinoble"}
AdvertAddresses == {"AA:01", "AA:02"}
Devices == [name : AdvertNames, address : AdvertAddresses]
NoDevice == [name |-> "", address |-> ""]

VARIABLES
    profile,     \* which program runs: its CHARACTERISTIC_UUIDS
    pc,          \* position of BLEManager.run
    ext,         \* position of a second stop_notifications/disconnect invocation
    i,           \* index of the running for-loop over characteristic_uuids
    queue,       \* asyncio.Queue of scan_for_device
    adverts,     \* devices whose advertisement the scanner delivered, in order
    scanner,     \* BleakScanner is listening
    device,      \* self.device
    client,      \* self.client is not None
    connected,   \* self.client.is_connected
    services,    \* uuids the connected peripheral exposes
    subscribed,  \* labels with start_notify done and no stop_notify done since
    calls,       \* transport calls issued, in order, with their outcome
    log,         \* diagnostics printed
    exc,         \* exception run raised to its caller
    signals,     \* cancellation signals delivered
    linkLost,    \* "no", or the position of run when the peripheral dropped the link
    checked,     \* registry indexes connect looked up in the peripheral's services
    handled,     \* the notification handled last, with what its handler did
    runs,        \* calls of run on this BLEManager
    again        \* position of a second start_notifications invocation

vars == << profile, pc, ext, i, queue, adverts, scanner, device, client,
           connected, services, subscribed, calls, log, exc, signals, linkLost,
           checked, handled, runs, again >>

\* self.characteristic_uuids
characteristic_uuids == IF profile = "full" THEN FullRegistry ELSE TimingRegistry

N == Len(characteristic_uuids)
Labels == {characteristic_uuids[k].label : k \in 1..N}
Uuids == {characteristic_uuids[k].uuid : k \in 1..N}

Call(op, arg, who, ok) == [op |-> op, arg |-> arg, who |-> who, ok |-> ok]

\* result = None
NoResult == [cls |-> "None", fields |-> << >>]

\* No notification handled yet.
NoEvent == [label |-> "", mtype |-> "", data |-> << >>, outcome |-> "none",
            result |-> NoResult]

\* ------------------------------------------------------------------- Init
Init ==
    /\ profile \in Profiles
    /\ pc = "init"
    /\ ext = "none"
    /\ i = 0
    /\ queue = << >>
    /\ adverts = << >>
    /\ scanner = FALSE
    /\ device = NoDevice
    /\ client = FALSE
    /\ connected = FALSE
    /\ services = {}
    /\ subscribed = {}
    /\ calls = << >>
    /\ log = {}
    /\ exc = "none"
    /\ signals = 0
    /\ linkLost = "no"
    /\ checked = {}
    /\ handled = NoEvent
    /\ runs = 0
    /\ again = 0

Say(tag, arg) == log' = log \cup {<< tag, arg >>}

\* ------------------------------------------------------- scan_for_device
\* Mutant of DetectionMatch: the names are compared ignoring case.
DetectionMatch_IgnoreCase(dev) == dev.name \in {TARGET_NAME, "monarduinoble"}

\* detection_callback's filter: device.name == self.target_name
DetectionMatch(dev) == dev.name = TARGET_NAME

\* run is called: scan_for_device creates the queue and enters the scanner.
RunStart ==
    /\ pc = "init"
    /\ pc' = "scan"
    /\ runs' = runs + 1
    /\ scanner' = TRUE
    /\ queue' = << >>
    /\ Say("scanning", "")
    /\ UNCHANGED << profile, again, handled, checked, ext, i, adverts, device, client, connected,
                    services, subscribed, calls, exc, signals, linkLost >>

\* The scanner delivers one advertisement to detection_callback.
Advertise(dev) ==
    /\ scanner
    /\ Len(adverts) < MaxAdverts
    /\ adverts' = Append(adverts, dev)
    /\ IF DetectionMatch(dev)
         THEN queue' = Append(queue, dev) /\ Say("found", dev.name)
         ELSE UNCHANGED << queue, log >>
    /\ UNCHANGED << profile, runs, again, handled, checked, pc, ext, i, scanner, device, client, connected,
                    services, subscribed, calls, exc, signals, linkLost >>

\* Mutant of QueueGet: the newest queued device is taken.
QueueGet_Newest(q) == q[Len(q)]

\* queue.get(): asyncio.Queue is first in, first out.
QueueGet(q) == Head(q)

\* wait_for(queue.get()) returns a device; the scanner context exits.
ScanGet ==
    /\ pc = "scan"
    /\ queue # << >>
    /\ device' = QueueGet(queue)
    /\ queue' = Tail(queue)
    /\ scanner' = FALSE
    /\ pc' = "connect"
    /\ Say("device_found", "")
    /\ UNCHANGED << profile, runs, again, handled, checked, ext, i, adverts, client, connected, services,
                    subscribed, calls, exc, signals, linkLost >>

\* wait_for times out on the empty queue; scan_for_device returns False and
\* run returns.
ScanTimeout ==
    /\ pc = "scan"
    /\ queue = << >>
    /\ scanner' = FALSE
    /\ pc' = "returned"
    /\ Say("not_found_timeout", "")
    /\ UNCHANGED << profile, runs, again, handled, checked, ext, i, queue, adverts, device, client, connected,
                    services, subscribed, calls, exc, signals, linkLost >>

\* ---------------------------------------------------------------- connect
RECURSIVE FirstMissingFrom(_, _)
FirstMissingFrom(k, svcs) ==
    IF k > N THEN 0
    ELSE IF characteristic_uuids[k].uuid \notin svcs THEN k
    ELSE FirstMissingFrom(k + 1, svcs)

\* Mutant of FirstMissing: the loop stops one entry short of the registry.
FirstMissing_SkipLast(svcs) ==
    IF FirstMissingFrom(1, svcs) = N THEN 0 ELSE FirstMissingFrom(1, svcs)

\* Mutant of FirstMissing: the loop goes on after a missing entry and stops
\* at the last one.
FirstMissing_LastMissing(svcs) ==
    IF FirstMissingFrom(1, svcs) = 0 THEN 0
    ELSE CHOOSE k \in 1..N :
           /\ characteristic_uuids[k].uuid \notin svcs
           /\ \A m \in (k + 1)..N : characteristic_uuids[m].uuid \in svcs

\* The validation loop of connect: index of the entry it stops at, 0 if
\* every entry is found.
FirstMissing(svcs) == FirstMissingFrom(1, svcs)

\* The registry indexes the validation loop looks up with
\* services.get_characteristic before it returns.
Looked(svcs) == IF FirstMissing(svcs) = 0 THEN 1..N ELSE 1..FirstMissing(svcs)

\* connect(): the device check, BleakClient(device), await client.connect(),
\* then the validation loop (no await in it).
Connect ==
    /\ pc = "connect"
    /\ IF device = NoDevice
         THEN /\ pc' = "returned"
              /\ Say("no_device", "")
              /\ UNCHANGED << client, connected, services, calls, i, checked >>
         ELSE /\ client' = TRUE
              /\ \E ok \in BOOLEAN :
                   /\ calls' = Append(calls, Call("connect", device.address, "run", ok))
                   /\ IF ok
                        THEN \E svcs \in SUBSET Uuids :
                               /\ connected' = TRUE
                               /\ services' = svcs
                               /\ checked' = Looked(svcs)
                               /\ IF FirstMissing(svcs) = 0
                                    THEN /\ pc' = "start_notifications"
                                         /\ i' = 1
                                         /\ Say("all_available", "")
                                    ELSE /\ pc' = "validate_disconnect"
                                         /\ i' = i
                                         /\ Say("not_found",
                                                characteristic_uuids[FirstMissing(svcs)].label)
                        ELSE /\ pc' = "returned"
                             /\ Say("failed_to_connect", "")
                             /\ UNCHANGED << connected, services, i, checked >>
    /\ UNCHANGED << profile, runs, again, handled, ext, queue, adverts, scanner, device, subscribed,
                    exc, signals, linkLost >>

\* await self.client.disconnect() of the validation loop; an exception is
\* caught by connect's except clause. connect returns False, run returns.
ValidateDisconnect ==
    /\ pc = "validate_disconnect"
    /\ \E ok \in BOOLEAN :
         /\ calls' = Append(calls, Call("disconnect", "", "run", ok))
         /\ IF ok
              THEN connected' = FALSE /\ UNCHANGED log
              ELSE UNCHANGED connected /\ Say("failed_to_connect", "")
    /\ pc' = "returned"
    /\ UNCHANGED << profile, runs, again, handled, checked, ext, i, queue, adverts, scanner, device, client,
                    services, subscribed, exc, signals, linkLost >>

\* ---------------------------------------------------- start_notifications
\* One iteration of the loop: await self.client.start_notify(uuid, __inner).
\* An exception leaves start_notifications and run (line 181 is outside the
\* try of run). After the last iteration run enters the blocking loop.
StartNotify ==
    /\ pc = "start_notifications"
    /\ \E ok \in (IF connected THEN BOOLEAN ELSE {FALSE}) :
         /\ calls' = Append(calls,
                Call("start_notify", characteristic_uuids[i].label, "run", ok))
         /\ IF ok
              THEN /\ subscribed' = subscribed \cup {characteristic_uuids[i].label}
                   /\ exc' = exc
                   /\ IF i = N
                        THEN pc' = "blocking" /\ i' = i /\ Say("listening", "")
                        ELSE pc' = pc /\ i' = i + 1 /\ UNCHANGED log
              ELSE /\ pc' = "raised"
                   /\ exc' = "BleakError"
                   /\ UNCHANGED << subscribed, i, log >>
    /\ UNCHANGED << profile, runs, again, handled, checked, ext, queue, adverts, scanner, device, client,
                    connected, services, signals, linkLost >>

\* ------------------------------------------ stop_notifications, disconnect
\* stop_notifications and disconnect are public coroutines: run awaits them in
\* its finally block ("run"), and a caller may await them once more after run
\* is over ("ext").
Invocations == {"run", "ext"}

At(who, label) == IF who = "run" THEN pc = label /\ ext = "none" ELSE ext = label

Goto(who, label) ==
    IF who = "run" THEN pc' = label /\ ext' = ext ELSE ext' = label /\ pc' = pc

\* self.client and self.client.is_connected
IsConnected == client /\ connected

\* Mutant of StopGuard: the test of is_connected inverted.
StopGuard_Inverted == client /\ ~connected

\* The guard of each iteration of stop_notifications.
StopGuard == IsConnected

\* The guard of disconnect.
DisconnectGuard == IsConnected

\* The exception of a transport call leaves the coroutine and its caller.
Raise(who) ==
    /\ Goto(who, "raised")
    /\ i' = i
    /\ exc' = IF who = "run" THEN "BleakError" ELSE exc

\* Next iteration of the loop of stop_notifications, or on to disconnect.
Advance(who) ==
    /\ exc' = exc
    /\ IF i = N
         THEN Goto(who, "disconnect") /\ i' = i
         ELSE Goto(who, "stop_notifications") /\ i' = i + 1

\* One iteration of the loop of stop_notifications.
StopNotifications(who) ==
    /\ At(who, "stop_notifications")
    /\ IF StopGuard
         THEN \E ok \in BOOLEAN :
                /\ calls' = Append(calls,
                       Call("stop_notify", characteristic_uuids[i].label, who, ok))
                /\ IF ok
                     THEN /\ subscribed' = subscribed \ {characteristic_uuids[i].label}
                          /\ Advance(who)
                     ELSE /\ subscribed' = subscribed
                          /\ Raise(who)
         ELSE /\ UNCHANGED << calls, subscribed >>
              /\ Advance(who)
    /\ UNCHANGED << profile, runs, again, handled, checked, queue, adverts, scanner, device, client, connected,
                    services, log, signals, linkLost >>

\* disconnect(): the guarded await self.client.disconnect().
Disconnect(who) ==
    /\ At(who, "disconnect")
    /\ IF DisconnectGuard
         THEN \E ok \in BOOLEAN :
                /\ calls' = Append(calls, Call("disconnect", "", who, ok))
                /\ IF ok
                     THEN /\ connected' = FALSE
                          /\ Goto(who, "returned")
                          /\ UNCHANGED << i, exc >>
                          /\ Say("disconnected", "")
                     ELSE /\ connected' = connected
                          /\ Raise(who)
                          /\ UNCHANGED log
         ELSE /\ Goto(who, "returned")
              /\ UNCHANGED << calls, connected, i, exc, log >>
    /\ UNCHANGED << profile, runs, again, handled, checked, queue, adverts, scanner, device, client, services,
                    subscribed, signals, linkLost >>

\* A caller awaits stop_notifications() and disconnect() again after the run
\* whose finally block awaited them is over.
TeardownAgain ==
    /\ pc \in {"returned", "raised"}
    /\ << "shutdown", "" >> \in log
    /\ ext = "none"
    /\ ext' = "stop_notifications"
    /\ i' = 1
    /\ UNCHANGED << profile, runs, again, handled, checked, pc, queue, adverts, scanner, device, client,
                    connected, services, subscribed, calls, log, exc, signals,
                    linkLost >>

\* ------------------------------------------------------------ environment
\* The peripheral drops the link: is_connected turns False. Nothing in the
\* program is called back (BleakClient is built without disconnected_callback).
LinkLost ==
    /\ connected
    /\ linkLost = "no"
    /\ connected' = FALSE
    /\ linkLost' = pc
    /\ UNCHANGED << profile, runs, again, handled, checked, pc, ext, i, queue, adverts, scanner, device, client,
                    services, subscribed, calls, log, exc, signals >>

\* A cancellation reaches run in its blocking loop: asyncio.sleep raises
\* CancelledError, the except clause prints, the finally block starts.
CancelBlocking ==
    /\ pc = "blocking"
    /\ signals < MaxSignals
    /\ signals' = signals + 1
    /\ pc' = "stop_notifications"
    /\ i' = 1
    /\ Say("shutdown", "")
    /\ UNCHANGED << profile, runs, again, handled, checked, ext, queue, adverts, scanner, device, client,
                    connected, services, subscribed, calls, exc, linkLost >>

\* A cancellation reaches run while its finally block awaits a transport
\* call: the await raises CancelledError, which leaves the finally block and
\* run. The call was issued; it is recorded as not having returned and as
\* having had no effect.
CancelTeardown ==
    /\ ext = "none"
    /\ pc \in {"stop_notifications", "disconnect"}
    /\ IsConnected
    /\ signals < MaxSignals
    /\ signals' = signals + 1
    /\ calls' = Append(calls,
           IF pc = "disconnect"
             THEN Call("disconnect", "", "run", FALSE)
             ELSE Call("stop_notify", characteristic_uuids[i].label, "run", FALSE))
    /\ pc' = "raised"
    /\ exc' = "CancelledError"
    /\ UNCHANGED << profile, runs, again, handled, checked, ext, i, queue, adverts, scanner, device, client,
                    connected, services, subscribed, log, linkLost >>

\* A cancellation reaches run before the blocking loop: the pending await
\* raises CancelledError (not an Exception, so connect's except clause does
\* not catch it), which leaves run; the scanner context exits on the way.
CancelEarly ==
    /\ pc \in {"scan", "connect", "validate_disconnect", "start_notifications"}
    /\ signals < MaxSignals
    /\ signals' = signals + 1
    /\ scanner' = FALSE
    /\ client' = (client \/ pc = "connect")
    /\ calls' = CASE pc = "connect" ->
                       Append(calls, Call("connect", device.address, "run", FALSE))
                  [] pc = "validate_disconnect" ->
                       Append(calls, Call("disconnect", "", "run", FALSE))
                  [] pc = "start_notifications" ->
                       Append(calls,
                           Call("start_notify", characteristic_uuids[i].label, "run", FALSE))
                  [] OTHER -> calls
    /\ pc' = "raised"
    /\ exc' = "CancelledError"
    /\ UNCHANGED << profile, runs, again, handled, checked, ext, i, queue, adverts, device, connected,
                    services, subscribed, log, linkLost >>

\* ------------------------------------------------------------------ Next
Next ==
    \/ RunStart
    \/ \E dev \in Devices : Advertise(dev)
    \/ ScanGet
    \/ ScanTimeout
    \/ Connect
    \/ ValidateDisconnect
    \/ StartNotify
    \/ \E who \in Invocations : StopNotifications(who)
    \/ \E who \in Invocations : Disconnect(who)
    \/ TeardownAgain
    \/ LinkLost
    \/ CancelBlocking
    \/ CancelTeardown
    \/ CancelEarly

Spec == Init /\ [][Next]_vars

\* The steps of run itself: an awaited transport call returns or raises, and
\* the scan's wait_for returns or times out. Signals, link losses,
\* advertisements and a second invocation are the environment's to give.
RunStep ==
    \/ ScanGet
    \/ ScanTimeout
    \/ Connect
    \/ ValidateDisconnect
    \/ StartNotify
    \/ StopNotifications("run")
    \/ Disconnect("run")

FairSpec == Spec /\ WF_vars(RunStep)

\* ---------------------------------------------------------- measurements
\* Notification payloads the peripheral may send: bytes, of lengths 3, 4, 12
\* and 13. The 12 bytes are the floats 1.0, 2.0, -1.0, little-endian.
Payloads ==
    { << 1, 2, 3 >>,
      << 120, 86, 52, 18 >>,
      << 255, 255, 255, 255 >>,
      << 0, 0, 128, 63, 0, 0, 0, 64, 0, 0, 128, 191 >>,
      << 0, 0, 128, 63, 0, 0, 0, 64, 0, 0, 128, 191, 7 >> }

\* The four bytes of field k of a buffer.
FieldBytes(data, k) == [b \in 1..4 |-> data[4 * (k - 1) + b]]

\* "<": little-endian, standard sizes, no padding. The high and the low
\* 16-bit word of the 32-bit value of four bytes: value = Hi * 65536 + Lo.
Hi16(b) == b[3] + 256 * b[4]
Lo16(b) == b[1] + 256 * b[2]

\* The low 31 bits of the value.
Low31(b) == b[1] + 256 * b[2] + 65536 * b[3] + 16777216 * (b[4] % 128)

\* One field of struct.unpack: "L" unsigned (kept as its two words), "i"
\* two's complement, "f" the sign, exponent and fraction of an IEEE 754
\* binary32.
UnpackField(code, b) ==
    IF code = "L" THEN [kind |-> "int", val |-> << Hi16(b), Lo16(b) >>]
    ELSE IF code = "i"
      THEN [kind |-> "int",
            val |-> IF b[4] >= 128 THEN Low31(b) - 2147483647 - 1 ELSE Low31(b)]
    ELSE [kind |-> "float",
          val |-> << b[4] \div 128,
                     2 * (b[4] % 128) + b[3] \div 128,
                     65536 * (b[3] % 128) + 256 * b[2] + b[1] >>]

\* Mutant of Unpack: a buffer longer than calcsize(fmt) is accepted and its
\* first bytes are used, as struct.unpack_from does.
Unpack_From(fmt, data) ==
    IF Len(data) < 4 * Len(fmt)
      THEN [ok |-> FALSE, values |-> << >>]
      ELSE [ok |-> TRUE,
            values |-> [k \in 1..Len(fmt) |-> UnpackField(fmt[k], FieldBytes(data, k))]]

\* struct.unpack(fmt, data): struct.error unless the buffer has exactly
\* calcsize(fmt) bytes, else the tuple of the fields.
Unpack(fmt, data) ==
    IF Len(data) # 4 * Len(fmt)
      THEN [ok |-> FALSE, values |-> << >>]
      ELSE [ok |-> TRUE,
            values |-> [k \in 1..Len(fmt) |-> UnpackField(fmt[k], FieldBytes(data, k))]]

\* The read_from of the class the handler picks for a measurement type:
\* cls(*fields) of the unpacked tuple. TimeCharacteristic.read_from passes
\* the tuple itself (time = unpack("<L", data), without unpacking it).
ReadFrom(mtype, data) ==
    CASE mtype = "acceleration" ->
           [ok |-> Unpack(<< "f", "f", "f" >>, data).ok,
            result |-> [cls |-> "AccelerationCharacteristic",
                        fields |-> Unpack(<< "f", "f", "f" >>, data).values]]
      [] mtype = "rotation" ->
           [ok |-> Unpack(<< "f", "f", "f" >>, data).ok,
            result |-> [cls |-> "RotationCharacteristic",
                        fields |-> Unpack(<< "f", "f", "f" >>, data).values]]
      [] mtype = "magnetometer" ->
           [ok |-> Unpack(<< "i" >>, data).ok,
            result |-> [cls |-> "MagnetometerCharacteristic",
                        fields |-> Unpack(<< "i" >>, data).values]]
      [] mtype = "temperature" ->
           [ok |-> Unpack(<< "f" >>, data).ok,
            result |-> [cls |-> "TemperatureCharacteristic",
                        fields |-> Unpack(<< "f" >>, data).values]]
      [] mtype = "time" ->
           [ok |-> Unpack(<< "L" >>, data).ok,
            result |-> [cls |-> "TimeCharacteristic",
                        fields |-> << [kind |-> "tuple",
                                       val |-> Unpack(<< "L" >>, data).values] >>]]

\* notification_handler(measurement_type, sender, data). The full program
\* prints the type and the result; the timing program appends an
\* inter-arrival time to times. An exception of read_from (struct.error)
\* leaves the handler: neither program catches it.
NotificationHandler(mtype, data) ==
    IF mtype \notin Labels
      THEN IF profile = "full"
             THEN [outcome |-> "printed", result |-> NoResult]
             ELSE [outcome |-> "raised", result |-> NoResult]
    ELSE IF ~ReadFrom(mtype, data).ok
      THEN [outcome |-> "raised", result |-> NoResult]
    ELSE [outcome |-> IF profile = "full" THEN "printed" ELSE "timed",
          result |-> ReadFrom(mtype, data).result]

\* The measurement type bound to the handler registered for registry entry
\* k: __inner's default argument mtype=measurement, evaluated when the
\* handler is defined.
InnerMtype(k) == characteristic_uuids[k].label

\* Mutant of Notify: a handler whose decoding fails drops the subscription
\* of its characteristic.
Notify_DropsSubscription(k, data) ==
    /\ connected
    /\ characteristic_uuids[k].label \in subscribed
    /\ handled' = [label |-> characteristic_uuids[k].label,
                   mtype |-> InnerMtype(k),
                   data |-> data,
                   outcome |-> NotificationHandler(InnerMtype(k), data).outcome,
                   result |-> NotificationHandler(InnerMtype(k), data).result]
    /\ subscribed' = IF NotificationHandler(InnerMtype(k), data).outcome = "raised"
                       THEN subscribed \ {characteristic_uuids[k].label}
                       ELSE subscribed
    /\ UNCHANGED << profile, pc, ext, i, queue, adverts, scanner, device, client,
                    connected, services, calls, log, exc, signals,
                    linkLost, checked, runs, again >>

\* The transport delivers a notification of registry entry k to its
\* handler __inner, which awaits the callback.
Notify(k, data) ==
    /\ connected
    /\ characteristic_uuids[k].label \in subscribed
    /\ handled' = [label |-> characteristic_uuids[k].label,
                   mtype |-> InnerMtype(k),
                   data |-> data,
                   outcome |-> NotificationHandler(InnerMtype(k), data).outcome,
                   result |-> NotificationHandler(InnerMtype(k), data).result]
    /\ UNCHANGED << profile, pc, ext, i, queue, adverts, scanner, device, client,
                    connected, services, subscribed, calls, log, exc, signals,
                    linkLost, checked, runs, again >>

\* run with its notifications.
NextNotify ==
    \/ Next
    \/ \E k \in 1..N, data \in Payloads : Notify(k, data)

SpecNotify == Init /\ [][NextNotify]_vars

\* --------------------------------------------------------------- re-entry
\* run is called again on the same BLEManager after an earlier call is over.
\* run tests no state of the manager: it starts with scan_for_device, as the
\* first call did.
RunAgain ==
    /\ pc \in {"returned", "raised"}
    /\ ext = "none"
    /\ runs < MaxRuns
    /\ runs' = runs + 1
    /\ pc' = "scan"
    /\ exc' = "none"
    /\ scanner' = TRUE
    /\ queue' = << >>
    /\ Say("scanning", "")
    /\ UNCHANGED << profile, again, handled, checked, ext, i, adverts, device,
                    client, connected, services, subscribed, calls, signals,
                    linkLost >>

\* One iteration of a second start_notifications(callback), awaited by
\* another task once the first invocation is through: again counts its
\* completed iterations, N + 1 once it raised. The coroutine issues
\* start_notify whatever is subscribed already; the transport accepts or
\* refuses it.
StartNotifyAgain ==
    /\ << "listening", "" >> \in log
    /\ client
    /\ again < N
    /\ \E ok \in (IF connected THEN BOOLEAN ELSE {FALSE}) :
         /\ calls' = Append(calls,
                Call("start_notify", characteristic_uuids[again + 1].label, "again", ok))
         /\ IF ok
              THEN /\ subscribed' = subscribed \cup {characteristic_uuids[again + 1].label}
                   /\ again' = again + 1
              ELSE /\ subscribed' = subscribed
                   /\ again' = N + 1
    /\ UNCHANGED << profile, runs, handled, checked, pc, ext, i, queue, adverts,
                    scanner, device, client, connected, services, log, exc,
                    signals, linkLost >>

\* run, with a further call of run once it is over.
NextReentry ==
    \/ Next
    \/ RunAgain

SpecReentry == Init /\ [][NextReentry]_vars

\* run, with a second invocation of start_notifications.
NextResubscribe ==
    \/ Next
    \/ StartNotifyAgain

SpecResubscribe == Init /\ [][NextResubscribe]_vars


\* ============================================================== properties
\* Helpers over the transport trace.
Issued(op, who) == {k \in DOMAIN calls : calls[k].op = op /\ calls[k].who = who}

IssuedFor(op, who, label) == {k \in Issued(op, who) : calls[k].arg = label}

Succeeded(op, who) == {k \in Issued(op, who) : calls[k].ok}

RunOver == pc \in {"returned", "raised"}

TeardownEntered == << "shutdown", "" >> \in log

\* run's finally block is running.
ShuttingDown == ext = "none" /\ pc \in {"stop_notifications", "disconnect"}

\* run went through its finally block and returned.
Closed == pc = "returned" /\ TeardownEntered

\* A transport call of run's finally block raised, and run raised it on.
TeardownFailureRaised == pc = "raised" /\ TeardownEntered /\ exc = "BleakError"

\* run's finally block was cut short by a cancellation.
TeardownInterrupted == pc = "raised" /\ TeardownEntered /\ exc = "CancelledError"

\* Index in the registry of a label.
IndexOf(label) == CHOOSE k \in 1..N : characteristic_uuids[k].label = label

\* C1: when an unsubscribe call of run's teardown fails, the characteristics
\* after it are still unsubscribed and disconnect is still issued afterwards.
C1_UnsubscribeFailureIgnored ==
    \A k \in Issued("stop_notify", "run") :
        (RunOver /\ ~calls[k].ok /\ exc # "CancelledError")
            => /\ \A l \in Labels :
                    IndexOf(l) > IndexOf(calls[k].arg)
                        => \E m \in IssuedFor("stop_notify", "run", l) : m > k
               /\ \E d \in Issued("disconnect", "run") : d > k

\* C2: a run that entered its teardown always ends Closed, and no failure of
\* a teardown transport call is raised to the caller of run.
C2_TeardownAlwaysCloses ==
    /\ ShuttingDown ~> (Closed \/ TeardownInterrupted)
    /\ [](~TeardownFailureRaised)

\* C3: when start_notify fails on the k-th characteristic, the k-1
\* subscriptions made before are unsubscribed, disconnect is issued, and run
\* ends with no active subscription, returning to its caller.
C3_SubscribeFailureRecovered ==
    \A k \in Issued("start_notify", "run") :
        (RunOver /\ ~calls[k].ok /\ exc # "CancelledError")
            => /\ subscribed = {}
               /\ {calls[m].arg : m \in Succeeded("stop_notify", "run")}
                     = {characteristic_uuids[j].label : j \in 1..(IndexOf(calls[k].arg) - 1)}
               /\ Issued("disconnect", "run") # {}
               /\ pc = "returned"

\* A step that issues disconnect to the transport.
DisconnectIssued ==
    /\ Len(calls') = Len(calls) + 1
    /\ calls'[Len(calls')].op = "disconnect"

\* C4: disconnect is issued to the transport only when no subscription is
\* active.
C4_DisconnectOnlyWhenUnsubscribed == [][DisconnectIssued => subscribed = {}]_vars

\* C4 witness: every characteristic was subscribed, then unsubscribed, and
\* run's teardown issued disconnect.
C4_Witness ==
    /\ profile = "full"
    /\ Cardinality(Succeeded("start_notify", "run")) = N
    /\ Cardinality(Succeeded("stop_notify", "run")) = N
    /\ Issued("disconnect", "run") # {}

\* C5: a link loss during the blocking loop is handled like a cancellation:
\* the run leaves the blocking loop and its teardown unsubscribes every
\* characteristic and then issues disconnect.
C5_LinkLossRunsFullTeardown ==
    (linkLost = "blocking" /\ RunOver)
        => /\ \A l \in Labels : IssuedFor("stop_notify", "run", l) # {}
           /\ Issued("disconnect", "run") # {}

\* C6: a cancellation during the blocking loop runs the teardown exactly once
\* and to completion, also when a second signal arrives while it runs: with
\* the link up and no transport call failing, the run ends returned, every
\* characteristic unsubscribed once and disconnect issued once.
C6_TeardownOnceToCompletion ==
    (RunOver /\ TeardownEntered /\ linkLost = "no" /\ ~TeardownFailureRaised)
        => /\ pc = "returned"
           /\ \A l \in Labels :
                Cardinality(IssuedFor("stop_notify", "run", l) \cap Succeeded("stop_notify", "run")) = 1
           /\ Cardinality(Succeeded("disconnect", "run")) = 1

\* C7: the second of two successive invocations of stop_notifications and
\* disconnect issues no transport call, also when a transport call of the
\* first invocation (the one of run, not cut short by a signal) failed.
C7_SecondTeardownIsNoOp ==
    ~TeardownInterrupted => \A k \in DOMAIN calls : calls[k].who # "ext"

\* connect returned from client.connect() and found exactly one registry
\* uuid missing from the peripheral's services.
MissingExactlyOne ==
    /\ Succeeded("connect", "run") # {}
    /\ Cardinality(Uuids \ services) = 1

TheMissingLabel ==
    characteristic_uuids[CHOOSE k \in 1..N : characteristic_uuids[k].uuid \notin services].label

\* C8: with exactly one required characteristic missing, validation reports
\* that characteristic and no other, no subscribe call is ever made, and the
\* run ends by issuing disconnect and returning.
C8_OneMissingCharacteristic ==
    MissingExactlyOne
        => /\ \A l \in Labels : (<< "not_found", l >> \in log) <=> (l = TheMissingLabel)
           /\ Issued("start_notify", "run") = {}
           /\ pc \in {"validate_disconnect", "returned", "raised"}
           /\ (pc = "returned" => Issued("disconnect", "run") # {})
           /\ (pc = "raised" => exc = "CancelledError")

\* C8 witness: the full registry with only magnetometer missing; the run has
\* issued disconnect and returned.
C8_Witness ==
    /\ profile = "full"
    /\ MissingExactlyOne
    /\ TheMissingLabel = "magnetometer"
    /\ pc = "returned"
    /\ Issued("disconnect", "run") # {}

\* An advertisement carrying the target name was delivered.
TargetAdvertised == \E k \in DOMAIN adverts : adverts[k].name = TARGET_NAME

\* C9: as long as no advertisement with the target name has arrived, no
\* connect call is made; the scan ends by its timeout and run returns.
C9_DiscoveryTimeoutNoConnect ==
    ~TargetAdvertised
        => /\ Issued("connect", "run") = {}
           /\ ~client
           /\ device = NoDevice
           /\ \/ pc \in {"init", "scan"}
              \/ pc = "returned" /\ << "not_found_timeout", "" >> \in log
              \/ pc = "raised" /\ exc = "CancelledError"

\* C9 witness: only other names (one of them the target's name in lower
\* case) were advertised, the scan timed out and run returned.
C9_Witness ==
    /\ ~TargetAdvertised
    /\ \E k \in DOMAIN adverts : adverts[k].name = "monarduinoble"
    /\ pc = "returned"
    /\ << "not_found_timeout", "" >> \in log

\* The failure of a phase before the blocking loop, "none" if there is none.
EarlyFailure ==
    IF << "not_found_timeout", "" >> \in log THEN "DiscoveryTimeout"
    ELSE IF \E l \in Labels : << "not_found", l >> \in log THEN "MissingCharacteristic"
    ELSE IF << "failed_to_connect", "" >> \in log THEN "ConnectFailed"
    ELSE IF \E k \in Issued("start_notify", "run") : ~calls[k].ok /\ exc = "BleakError"
         THEN "SubscribeFailed"
    ELSE "none"

\* What the caller of run receives: None from every return statement of run,
\* or the exception run raised.
RunResult == IF pc = "returned" THEN "None" ELSE IF pc = "raised" THEN exc ELSE "pending"

\* C10: a failure before the blocking loop ends the run without entering the
\* blocking loop and is surfaced to the caller of run; the blocking loop is
\* entered only with every registry characteristic subscribed.
C10_EarlyFailureSurfaced ==
    /\ (RunOver /\ EarlyFailure # "none")
          => /\ << "listening", "" >> \notin log
             /\ RunResult # "None"
    /\ (<< "listening", "" >> \in log)
          => \A l \in Labels : \E k \in IssuedFor("start_notify", "run", l) : calls[k].ok

\* Registry indexes whose uuid the connected peripheral does not expose.
MissingIndexes == {k \in 1..N : characteristic_uuids[k].uuid \notin services}

\* The first of them in registry order.
FirstMissingIndex == CHOOSE k \in MissingIndexes : \A m \in MissingIndexes : k <= m

\* C17: validation looks the characteristics up in registry order and stops
\* at the first missing one: it reports that entry and no other, and has
\* looked up exactly the entries up to it.
C17_ValidationFailFast ==
    (Succeeded("connect", "run") # {} /\ MissingIndexes # {})
        => /\ \A l \in Labels :
                (<< "not_found", l >> \in log)
                    <=> (l = characteristic_uuids[FirstMissingIndex].label)
           /\ checked = 1..FirstMissingIndex

\* C17 witness: rotation and temperature are both missing; validation
\* stopped at rotation, the second entry, and the run returned.
C17_Witness ==
    /\ profile = "full"
    /\ MissingIndexes = {2, 4}
    /\ checked = {1, 2}
    /\ << "not_found", "rotation" >> \in log
    /\ pc = "returned"

\* The first delivered advertisement that carries the target name.
FirstTargetAdvert ==
    adverts[CHOOSE k \in DOMAIN adverts :
                /\ adverts[k].name = TARGET_NAME
                /\ \A m \in 1..(k - 1) : adverts[m].name # TARGET_NAME]

\* C18: the device selected is the first advertisement whose name equals the
\* target name; once the scan is over, by a match or by the timeout, the
\* scanner is stopped, so that no later advertisement changes the selection.
C18_FirstMatchThenStop ==
    /\ pc \notin {"init", "scan"} => ~scanner
    /\ device # NoDevice
          => /\ ~scanner
             /\ TargetAdvertised
             /\ device = FirstTargetAdvert
    /\ (pc \notin {"init", "scan"} /\ device = NoDevice)
          => (<< "not_found_timeout", "" >> \in log \/ exc = "CancelledError")

\* C18 witness: two devices advertised the target name before the scan
\* returned; the first one is selected and the scanner is stopped.
C18_Witness ==
    /\ Len(adverts) >= 2
    /\ adverts[1].name = TARGET_NAME
    /\ adverts[2].name = TARGET_NAME
    /\ adverts[1].address # adverts[2].address
    /\ device = adverts[1]
    /\ ~scanner

\* C20: whenever run is over, on any path, the connection it opened is no
\* longer open and no notification handler remains registered (here: also
\* granted that every disconnect call that was issued returned).
C20_NothingLeftOpen ==
    (RunOver /\ \A k \in Issued("disconnect", "run") : calls[k].ok)
        => /\ ~connected
           /\ (linkLost = "no" => subscribed = {})

\* The width in bytes of the record of each logical name.
ExpectedWidth(label) == IF label \in {"acceleration", "rotation"} THEN 12 ELSE 4

\* A notification was handled.
Handled == handled.outcome # "none"

\* C11: a payload that fails to decode is reported to the sink as an error
\* value and no exception leaves the handler.
C11_DecodeFailureReported ==
    (Handled /\ Len(handled.data) # ExpectedWidth(handled.label))
        => /\ handled.outcome \in {"printed", "timed"}
           /\ handled.result.cls = "DecodeError"

\* C12: decoding a buffer whose length differs from the width of its
\* logical name fails and yields no measurement, for every registered name.
C12_LengthMismatchFails ==
    (Handled /\ Len(handled.data) # ExpectedWidth(handled.label))
        => /\ handled.outcome = "raised"
           /\ handled.result = NoResult

\* C12 witness: 13 bytes, one more than its width, were delivered on the
\* acceleration characteristic and the decoding failed.
C12_Witness ==
    /\ handled.label = "acceleration"
    /\ Len(handled.data) = 13
    /\ handled.outcome = "raised"

\* C15: in the timing program a 4-byte notification decodes to a measurement
\* whose time field is one unsigned integer, the little-endian value of the
\* bytes (given by its high and low 16-bit words).
C15_TimeIsUnsignedInteger ==
    (Handled /\ profile = "timing" /\ Len(handled.data) = 4)
        => /\ handled.result.cls = "TimeCharacteristic"
           /\ handled.result.fields[1].kind = "int"
           /\ handled.result.fields[1].val
                 = << handled.data[3] + 256 * handled.data[4],
                      handled.data[1] + 256 * handled.data[2] >>

\* The class that decodes each logical name.
DecoderOf(label) ==
    CASE label = "acceleration" -> "AccelerationCharacteristic"
      [] label = "rotation" -> "RotationCharacteristic"
      [] label = "magnetometer" -> "MagnetometerCharacteristic"
      [] label = "temperature" -> "TemperatureCharacteristic"
      [] label = "time" -> "TimeCharacteristic"

\* C16: every notification delivered on a subscribed characteristic reaches
\* the sink under the logical name registered for that characteristic,
\* decoded by that name's decoder.
C16_EveryNotificationRouted ==
    Handled
        => /\ handled.mtype = handled.label
           /\ handled.outcome \in {"printed", "timed"}
           /\ handled.result.cls = DecoderOf(handled.label)

\* A step that handles a notification.
NotificationStep == handled' # handled

\* C19: handling a notification changes neither the position of run, the
\* connection, the subscriptions nor anything else of the session, in any
\* interleaving with the other steps.
C19_NotificationFrame ==
    [][NotificationStep
          => UNCHANGED << pc, ext, i, device, client, connected, services,
                          subscribed, calls, exc, runs, again >>]_vars

\* C19 witness: a notification was handled while run's teardown had
\* unsubscribed some characteristics and not yet the others.
C19_Witness ==
    /\ Handled
    /\ ShuttingDown
    /\ subscribed # {}
    /\ subscribed # Labels

\* C13: once a call of run is over, a further call of run on the same
\* session does nothing: it starts no scan and leaves run over.
C13_RunNotReentrant == runs >= 2 => (~scanner /\ RunOver)

\* A step in which the transport accepts a start_notify.
StartAccepted ==
    /\ Len(calls') = Len(calls) + 1
    /\ calls'[Len(calls')].op = "start_notify"
    /\ calls'[Len(calls')].ok

\* C14: no characteristic that is subscribed gets a second handler
\* registered: a second subscription is refused before it reaches the
\* transport, also when start_notifications is invoked a second time.
C14_NoDoubleSubscription ==
    [][StartAccepted => calls'[Len(calls')].arg \notin subscribed]_vars

====
